---------------------------- MODULE Spec2Model ----------------------------
(***************************************************************************)
(* Simulation & ledger engine of the copy-trader bot: the mempool monitor  *)
(* (event generator), the MEV sniper (evaluator), the stats tracker        *)
(* (ledger) and the bot handlers that connect them.                        *)
(*                                                                         *)
(* Numbers are fixed point.  Money (EUR) is counted in micro-EUR, ETH in   *)
(* micro-ETH, USD in micro-USD, token quantities in whole tokens, token    *)
(* prices in micro-EUR per token, gas prices in gwei.  Divisions round     *)
(* down.  Math.random() draws become choices from small sets of values of  *)
(* the drawn range.                                                        *)
(***************************************************************************)
EXTENDS Integers, Sequences, FiniteSets, TLC

\* ------------------------------------------------------------- bounds
NumUsers == 2
MaxTx == 2
MaxTrades == 2
MaxPairTx == 2
MaxSharedTx == 1
MaxClockMs == 20000
MaxHistoryTrades == 60

\* ---------------------------------------------------------- constants
Scale == 1000 * 1000
InitialBalance == 20 * Scale
MinBalance == 1 * Scale
MinTxValueMilliEth == 500
HistoryCapacity == 50
GasLimit == 200000
MinGasPrice == 5
MaxGasPrice == 50
MinDelayMs == 5000
DelaySpreadMs == 10000
ETH_PRICE_USD == 2300
EUR_USD_RATE_NUM == 11
EUR_USD_RATE_DEN == 10

DEMO_TOKENS ==
  << [symbol |-> "PEPE",  address |-> 1, price |-> 10],
     [symbol |-> "SHIB",  address |-> 2, price |-> 20],
     [symbol |-> "DOGE",  address |-> 3, price |-> 80000],
     [symbol |-> "FLOKI", address |-> 4, price |-> 150] >>

Users == 1..NumUsers

\* Values drawn by Math.random() in the source, one or two per range.
EventTokens == {1}                    \* index into DEMO_TOKENS
EventAmountsMilliEth == {100, 1000}   \* 0.1 + random*2 ETH
EventGasPrices == {10, 50}            \* (10 + random*40).toFixed(0) gwei
TradePercentages == {25}              \* 0.1 + random*0.2, in percent
GasUsedChoices == {150000}            \* gasLimit * (0.6 + random*0.2)
SlippagesPerMille == {4}              \* 0.001 + random*0.004
PriceChangesPercent == {10}           \* -0.05 + random*0.2, in percent
SellGasPrices == {5}                  \* minGasPrice + random*(max - min)
SellPercentages == {50, 100}
FixedDelayDraws == {0}                \* Math.random() of scheduleNext, in thousandths
DelayDraws == {0, 999}
IdleGapsMs == {3000}                  \* time that passes while no timer is pending

VARIABLES
  stats,               \* StatsTracker.stats: userId -> UserStats
  listeners,           \* MempoolMonitor.listeners: userId -> callback (the user it serves)
  isMonitoring,        \* MempoolMonitor.isMonitoring
  monitoringInterval,  \* MempoolMonitor.monitoringInterval: last timer handle, 0 = undefined
  timers,              \* the event loop's pending timers (handles)
  handlers,            \* suspended handleMempoolTransaction invocations
  nextTx,              \* number of market events generated so far
  applied,             \* per user, the events whose trade reached addTrade, in order
  reply,               \* the last message a front-end operation reported
  staleTimers,         \* pending timers that were armed before the last idle period
  rearmed,             \* the pending timer was armed by a subscription that ended
                       \* an idle period, and has not fired yet
  clock                \* now: the time in ms of the last timer callback or idle wait;
                       \* armedAt, delay: when scheduleNext last called setTimeout, and
                       \* with which delay

vars == << stats, listeners, isMonitoring, monitoringInterval, timers,
           handlers, nextTx, applied, reply, staleTimers, rearmed, clock >>


\* ------------------------------------------------------------ helpers
Min(a, b) == IF a <= b THEN a ELSE b

\* Division rounding down, for either sign of the divisor.
Div(a, b) == IF b > 0 THEN a \div b ELSE (0 - a) \div (0 - b)

\* The value of 0/0 in the source's arithmetic.
NotANumber == 0 - 1

TokenByAddress(addr) == DEMO_TOKENS[addr]

\* Array.prototype.findIndex on a tokenAddress match: 0 when there is none.
FindIndex(positions, addr) ==
  LET hits == { i \in 1..Len(positions) : positions[i].tokenAddress = addr }
  IN IF hits = {} THEN 0 ELSE CHOOSE i \in hits : \A j \in hits : i <= j

\* Array.prototype.splice(i, 1)
Splice(seq, i) == SubSeq(seq, 1, i - 1) \o SubSeq(seq, i + 1, Len(seq))

\* -------------------------------------------------------- cost model
\* gasPrice in gwei; the fee in micro-ETH (the source divides by 1e9 for ETH).
calculateGasFee(gasUsed, gasPrice) == (gasUsed * gasPrice) \div 1000

ethToEur(ethAmount, ethPriceUsd, eurUsdNum, eurUsdDen) ==
  LET usdAmount == ethAmount * ethPriceUsd
  IN (usdAmount * eurUsdDen) \div eurUsdNum

GasFeeEur(gasUsed, gasPrice) ==
  ethToEur(calculateGasFee(gasUsed, gasPrice), ETH_PRICE_USD,
           EUR_USD_RATE_NUM, EUR_USD_RATE_DEN)

\* ------------------------------------------------------------- ledger
NewStats(userId) ==
  [ userId |-> userId,
    balance |-> InitialBalance,
    totalTrades |-> 0,
    successfulTrades |-> 0,
    failedTrades |-> 0,
    totalProfit |-> 0,
    totalFees |-> 0,
    winRate |-> 0,
    activePositions |-> << >>,
    tradeHistory |-> << >> ]

\* A getUserStats that stores a new ledger on every access.
EnsureStatsOverwrites(s, userId) ==
  [ u \in DOMAIN s \cup {userId} |-> IF u = userId THEN NewStats(userId) ELSE s[u] ]

\* getUserStats creates the ledger on first access.
EnsureStats(s, userId) ==
  IF userId \in DOMAIN s THEN s ELSE s @@ (userId :> NewStats(userId))

getUserStats(s, userId) == EnsureStats(s, userId)[userId]

\* A history that pushes at the end and keeps the first 50 entries.
PushHistoryAtEnd(history, trade) ==
  LET h == Append(history, trade)
  IN IF Len(h) > HistoryCapacity THEN SubSeq(h, 1, HistoryCapacity) ELSE h

\* A history that evicts its oldest entry one trade early.
PushHistoryEvictsEarly(history, trade) ==
  LET h == << trade >> \o history
  IN IF Len(h) >= HistoryCapacity THEN SubSeq(h, 1, HistoryCapacity - 1) ELSE h

\* tradeHistory.unshift(trade), then slice(0, 50)
PushHistory(history, trade) ==
  LET h == << trade >> \o history
  IN IF Len(h) > HistoryCapacity THEN SubSeq(h, 1, HistoryCapacity) ELSE h

\* A win rate over the trades that were decided rather than over all trades.
WinRateOfDecided(successful, total) ==
  IF successful > 0 THEN 1000 ELSE 0

\* winRate in tenths of a percent
WinRate(successful, total) ==
  IF total > 0 THEN (successful * 1000) \div total ELSE 0

\* An entry price that is the plain mean of the old entry price and the new price.
AveragedEntryPriceUnweighted(pos, trade) ==
  Div(pos.entryPrice + trade.price, 2)

\* entry price after buying more of a held asset
AveragedEntryPrice(pos, trade) ==
  LET totalAmount == pos.amount + trade.amount
  IN IF totalAmount = 0 THEN NotANumber
     ELSE Div(pos.entryPrice * pos.amount + trade.price * trade.amount, totalAmount)

\* A completed buy that always pushes a new position.
BuyPositionsAlwaysPush(positions, trade) ==
  Append(positions,
         [ tokenAddress |-> trade.tokenAddress,
           tokenSymbol |-> trade.tokenSymbol,
           amount |-> trade.amount,
           entryPrice |-> trade.price,
           currentPrice |-> trade.price,
           unrealizedPnL |-> 0 ])

BuyPositions(positions, trade) ==
  LET i == FindIndex(positions, trade.tokenAddress)
  IN IF i # 0
     THEN [ positions EXCEPT
              ![i].entryPrice = AveragedEntryPrice(positions[i], trade),
              ![i].amount = positions[i].amount + trade.amount ]
     ELSE Append(positions,
            [ tokenAddress |-> trade.tokenAddress,
              tokenSymbol |-> trade.tokenSymbol,
              amount |-> trade.amount,
              entryPrice |-> trade.price,
              currentPrice |-> trade.price,
              unrealizedPnL |-> 0 ])

SellPositions(positions, trade) ==
  LET i == FindIndex(positions, trade.tokenAddress)
  IN IF i = 0 THEN positions
     ELSE IF trade.amount >= positions[i].amount
          THEN Splice(positions, i)
          ELSE [ positions EXCEPT ![i].amount = positions[i].amount - trade.amount ]

SellProfit(positions, trade) ==
  LET i == FindIndex(positions, trade.tokenAddress)
  IN IF i = 0 THEN 0
     ELSE (trade.price - positions[i].entryPrice) * trade.amount

\* An addTrade that counts a trade and its fee only once it is completed or failed.
ApplyTradeCountsDecided(st, trade) ==
  LET decided == trade.status \in {"completed", "failed"}
      total == st.totalTrades + (IF decided THEN 1 ELSE 0)
      successful == st.successfulTrades + (IF trade.status = "completed" THEN 1 ELSE 0)
  IN [ st EXCEPT
         !.tradeHistory = PushHistory(st.tradeHistory, trade),
         !.totalTrades = total,
         !.totalFees = st.totalFees + (IF decided THEN trade.gasFee ELSE 0),
         !.successfulTrades = successful,
         !.failedTrades = st.failedTrades + (IF trade.status = "failed" THEN 1 ELSE 0),
         !.activePositions =
            IF trade.status = "completed" /\ trade.type = "buy"
            THEN BuyPositions(st.activePositions, trade)
            ELSE IF trade.status = "completed" /\ trade.type = "sell"
            THEN SellPositions(st.activePositions, trade)
            ELSE st.activePositions,
         !.totalProfit =
            IF trade.status = "completed" /\ trade.type = "sell"
            THEN st.totalProfit + SellProfit(st.activePositions, trade)
            ELSE st.totalProfit,
         !.balance =
            IF trade.status = "completed" /\ trade.type = "buy"
            THEN st.balance - trade.totalCost
            ELSE IF trade.status = "completed" /\ trade.type = "sell"
            THEN st.balance + trade.totalCost
            ELSE IF trade.status = "failed" THEN st.balance - trade.gasFee
            ELSE st.balance,
         !.winRate = WinRate(successful, total) ]

\* An addTrade that debits the total cost of a failed trade.
ApplyTradeFailedDebitsCost(st, trade) ==
  [ st EXCEPT
      !.tradeHistory = PushHistory(st.tradeHistory, trade),
      !.totalTrades = st.totalTrades + 1,
      !.totalFees = st.totalFees + trade.gasFee,
      !.successfulTrades = st.successfulTrades + (IF trade.status = "completed" THEN 1 ELSE 0),
      !.failedTrades = st.failedTrades + (IF trade.status = "failed" THEN 1 ELSE 0),
      !.activePositions =
         IF trade.status = "completed" /\ trade.type = "buy"
         THEN BuyPositions(st.activePositions, trade)
         ELSE IF trade.status = "completed" /\ trade.type = "sell"
         THEN SellPositions(st.activePositions, trade)
         ELSE st.activePositions,
      !.totalProfit =
         IF trade.status = "completed" /\ trade.type = "sell"
         THEN st.totalProfit + SellProfit(st.activePositions, trade)
         ELSE st.totalProfit,
      !.balance =
         IF trade.status = "completed" /\ trade.type = "buy"
         THEN st.balance - trade.totalCost
         ELSE IF trade.status = "completed" /\ trade.type = "sell"
         THEN st.balance + trade.totalCost
         ELSE IF trade.status = "failed" THEN st.balance - trade.totalCost
         ELSE st.balance ]

\* An addTrade that debits the fee of a completed buy on top of its total cost.
ApplyTradeFeeTwice(st, trade) ==
  [ st EXCEPT
      !.tradeHistory = PushHistory(st.tradeHistory, trade),
      !.totalTrades = st.totalTrades + 1,
      !.totalFees = st.totalFees + trade.gasFee,
      !.successfulTrades = st.successfulTrades + (IF trade.status = "completed" THEN 1 ELSE 0),
      !.failedTrades = st.failedTrades + (IF trade.status = "failed" THEN 1 ELSE 0),
      !.activePositions =
         IF trade.status = "completed" /\ trade.type = "buy"
         THEN BuyPositions(st.activePositions, trade)
         ELSE IF trade.status = "completed" /\ trade.type = "sell"
         THEN SellPositions(st.activePositions, trade)
         ELSE st.activePositions,
      !.balance =
         IF trade.status = "completed" /\ trade.type = "buy"
         THEN st.balance - trade.totalCost - trade.gasFee
         ELSE IF trade.status = "completed" /\ trade.type = "sell"
         THEN st.balance + trade.totalCost
         ELSE IF trade.status = "failed" THEN st.balance - trade.gasFee
         ELSE st.balance ]

\* An addTrade that treats every trade that is not completed as failed.
ApplyTradeUndecidedAsFailed(st, trade) ==
  LET completed == trade.status = "completed"
      failed == ~completed
      isBuy == completed /\ trade.type = "buy"
      isSell == completed /\ trade.type = "sell"
      total == st.totalTrades + 1
      successful == st.successfulTrades + (IF completed THEN 1 ELSE 0)
  IN [ st EXCEPT
         !.tradeHistory = PushHistory(st.tradeHistory, trade),
         !.totalTrades = total,
         !.totalFees = st.totalFees + trade.gasFee,
         !.successfulTrades = successful,
         !.failedTrades = st.failedTrades + (IF failed THEN 1 ELSE 0),
         !.activePositions =
            IF isBuy THEN BuyPositions(st.activePositions, trade)
            ELSE IF isSell THEN SellPositions(st.activePositions, trade)
            ELSE st.activePositions,
         !.totalProfit =
            IF isSell THEN st.totalProfit + SellProfit(st.activePositions, trade)
            ELSE st.totalProfit,
         !.balance =
            IF isBuy THEN st.balance - trade.totalCost
            ELSE IF isSell THEN st.balance + trade.totalCost
            ELSE IF failed THEN st.balance - trade.gasFee
            ELSE st.balance,
         !.winRate = WinRate(successful, total) ]

\* StatsTracker.addTrade on one user's ledger
ApplyTrade(st, trade) ==
  LET completed == trade.status = "completed"
      failed == trade.status = "failed"
      isBuy == completed /\ trade.type = "buy"
      isSell == completed /\ trade.type = "sell"
      total == st.totalTrades + 1
      successful == st.successfulTrades + (IF completed THEN 1 ELSE 0)
  IN [ st EXCEPT
         !.tradeHistory = PushHistory(st.tradeHistory, trade),
         !.totalTrades = total,
         !.totalFees = st.totalFees + trade.gasFee,
         !.successfulTrades = successful,
         !.failedTrades = st.failedTrades + (IF failed THEN 1 ELSE 0),
         !.activePositions =
            IF isBuy THEN BuyPositions(st.activePositions, trade)
            ELSE IF isSell THEN SellPositions(st.activePositions, trade)
            ELSE st.activePositions,
         !.totalProfit =
            IF isSell THEN st.totalProfit + SellProfit(st.activePositions, trade)
            ELSE st.totalProfit,
         !.balance =
            IF isBuy THEN st.balance - trade.totalCost
            ELSE IF isSell THEN st.balance + trade.totalCost
            ELSE IF failed THEN st.balance - trade.gasFee
            ELSE st.balance,
         !.winRate = WinRate(successful, total) ]

\* An addTrade that applies the trade to every ledger of the map.
addTradeToEveryLedger(s, userId, trade) ==
  [ u \in DOMAIN s \cup {userId} |-> ApplyTrade(getUserStats(s, u), trade) ]

addTrade(s, userId, trade) ==
  [ EnsureStats(s, userId) EXCEPT ![userId] = ApplyTrade(getUserStats(s, userId), trade) ]

\* A price update that also moves the entry price to the observed price.
updatePositionPricesMovesEntry(s, userId, tokenAddress, newPrice) ==
  LET st == getUserStats(s, userId)
      i == FindIndex(st.activePositions, tokenAddress)
  IN IF i = 0 THEN EnsureStats(s, userId)
     ELSE [ EnsureStats(s, userId) EXCEPT
              ![userId].activePositions[i].currentPrice = newPrice,
              ![userId].activePositions[i].entryPrice = newPrice,
              ![userId].activePositions[i].unrealizedPnL =
                 (newPrice - st.activePositions[i].entryPrice) * st.activePositions[i].amount ]

\* StatsTracker.updatePositionPrices
updatePositionPrices(s, userId, tokenAddress, newPrice) ==
  LET st == getUserStats(s, userId)
      i == FindIndex(st.activePositions, tokenAddress)
  IN IF i = 0 THEN EnsureStats(s, userId)
     ELSE [ EnsureStats(s, userId) EXCEPT
              ![userId].activePositions[i].currentPrice = newPrice,
              ![userId].activePositions[i].unrealizedPnL =
                 (newPrice - st.activePositions[i].entryPrice) * st.activePositions[i].amount ]

\* A reset that keeps the trade history.
resetStatsKeepsHistory(s, userId) ==
  [ u \in DOMAIN s \cup {userId} |->
      IF u = userId
      THEN [ NewStats(userId) EXCEPT
               !.tradeHistory = IF userId \in DOMAIN s THEN s[userId].tradeHistory
                                ELSE << >> ]
      ELSE s[u] ]

resetStats(s, userId) ==
  [ u \in DOMAIN s \cup {userId} |-> IF u = userId THEN NewStats(userId) ELSE s[u] ]


\* ------------------------------------------------------------ monitor
\* The handle setTimeout returns: one that no pending timer has.
NewHandle(ts) ==
  CHOOSE h \in 1..(Cardinality(ts) + 1) :
    /\ h \notin ts
    /\ \A g \in 1..(Cardinality(ts) + 1) : g \notin ts => h <= g

\* A clearInterval that leaves a setTimeout handle pending.
clearIntervalKeepsTimeout(ts, handle) == ts

\* clearInterval(handle): the pending timers afterwards.
clearInterval(ts, handle) == ts \ {handle}

\* listeners.delete(userId)
\* A stopMonitoring that leaves the callback in the map.
DeleteListenerKeeps(ls, userId) == ls

DeleteListener(ls, userId) == [ u \in DOMAIN ls \ {userId} |-> ls[u] ]

\* listeners.set(userId, callback)
SetListener(ls, userId, callback) ==
  [ u \in DOMAIN ls \cup {userId} |-> IF u = userId THEN callback ELSE ls[u] ]

\* A delay that is the scaled draw alone, without the minimum.
scheduleDelayWithoutMinimum(random) == (random * DelaySpreadMs) \div 1000

\* scheduleNext: const delay = 5000 + Math.random() * 10000, the draw in
\* thousandths.
scheduleDelay(random) == MinDelayMs + (random * DelaySpreadMs) \div 1000

\* scheduleNext calls setTimeout at the present time with the delay it drew.
scheduleNext(c, random) ==
  [ c EXCEPT !.armedAt = c.now, !.delay = scheduleDelay(random) ]

\* A startMonitoring that starts a timer chain without looking at isMonitoring.
startMonitoringAlwaysArms(userId, callback, random) ==
  /\ listeners' = SetListener(listeners, userId, callback)
  /\ isMonitoring' = TRUE
  /\ monitoringInterval' = NewHandle(timers)
  /\ timers' = timers \cup {NewHandle(timers)}
  /\ rearmed' = (monitoringInterval # 0)
  /\ clock' = scheduleNext(clock, random)
  /\ UNCHANGED staleTimers

\* startMonitoring: starts the clock (simulateMempoolActivity -> scheduleNext) when idle.
startMonitoring(userId, callback, random) ==
  /\ listeners' = SetListener(listeners, userId, callback)
  /\ IF ~isMonitoring
     THEN /\ isMonitoring' = TRUE
          /\ monitoringInterval' = NewHandle(timers)
          /\ timers' = timers \cup {NewHandle(timers)}
          /\ rearmed' = (monitoringInterval # 0)
          /\ clock' = scheduleNext(clock, random)
     ELSE UNCHANGED << isMonitoring, monitoringInterval, timers, rearmed, clock >>
  /\ UNCHANGED staleTimers

\* A stopMonitoring that stops the clock without looking at listeners.size.
stopMonitoringAnySubscriber(userId) ==
  /\ listeners' = DeleteListener(listeners, userId)
  /\ isMonitoring' = FALSE
  /\ timers' = IF monitoringInterval # 0
               THEN clearInterval(timers, monitoringInterval) ELSE timers
  /\ staleTimers' = timers'
  /\ rearmed' = FALSE
  /\ UNCHANGED << monitoringInterval, clock >>

stopMonitoring(userId) ==
  LET ls == DeleteListener(listeners, userId)
      ts == IF DOMAIN ls = {} /\ monitoringInterval # 0
            THEN clearInterval(timers, monitoringInterval)
            ELSE timers
  IN /\ listeners' = ls
     /\ isMonitoring' = IF DOMAIN ls = {} THEN FALSE ELSE isMonitoring
     /\ timers' = ts
     /\ staleTimers' = IF DOMAIN ls = {} THEN ts ELSE staleTimers
     /\ rearmed' = IF DOMAIN ls = {} THEN FALSE ELSE rearmed
     /\ UNCHANGED << monitoringInterval, clock >>

isUserMonitoring(userId) == userId \in DOMAIN listeners

\* ------------------------------------------------------------ sniper
\* An analyzeAndSnipe that looks at the direction before the balance.
analyzeAndSnipeDirectionFirst(s, userId, tx, willSucceed) ==
  IF tx.type # "swap"
  THEN [ shouldSnipe |-> FALSE, reason |-> "Not a swap transaction" ]
  ELSE IF tx.tokenIn # "ETH"
  THEN [ shouldSnipe |-> FALSE, reason |-> "Not a buy transaction" ]
  ELSE IF getUserStats(s, userId).balance < MinBalance
  THEN [ shouldSnipe |-> FALSE, reason |-> "Insufficient balance" ]
  ELSE IF tx.amountIn < MinTxValueMilliEth
  THEN [ shouldSnipe |-> FALSE, reason |-> "Transaction too small" ]
  ELSE [ shouldSnipe |-> TRUE,
         reason |-> IF willSucceed THEN "Good opportunity detected"
                    ELSE "Competition too high" ]

\* MEVSniper.analyzeAndSnipe; willSucceed is its Math.random() > 0.3.
analyzeAndSnipe(s, userId, tx, willSucceed) ==
  IF tx.type # "swap"
  THEN [ shouldSnipe |-> FALSE, reason |-> "Not a swap transaction" ]
  ELSE IF getUserStats(s, userId).balance < MinBalance
  THEN [ shouldSnipe |-> FALSE, reason |-> "Insufficient balance" ]
  ELSE IF tx.tokenIn # "ETH"
  THEN [ shouldSnipe |-> FALSE, reason |-> "Not a buy transaction" ]
  ELSE IF tx.amountIn < MinTxValueMilliEth
  THEN [ shouldSnipe |-> FALSE, reason |-> "Transaction too small" ]
  ELSE [ shouldSnipe |-> TRUE,
         reason |-> IF willSucceed THEN "Good opportunity detected"
                    ELSE "Competition too high" ]

\* DEMO_TOKENS.find(t => t.symbol === tx.tokenOut) || DEMO_TOKENS[0]
TokenOf(tx) ==
  LET hits == { i \in 1..Len(DEMO_TOKENS) : DEMO_TOKENS[i].symbol = tx.tokenOut }
  IN IF hits = {} THEN DEMO_TOKENS[1]
     ELSE DEMO_TOKENS[CHOOSE i \in hits : \A j \in hits : i <= j]

\* A trade size that is the fraction of the balance, without the cap.
TradeAmountEurUncapped(balance, tradePercentage) ==
  (balance * tradePercentage) \div 100

\* Math.min(stats.balance * tradePercentage, stats.balance - 1)
TradeAmountEur(balance, tradePercentage) ==
  Min((balance * tradePercentage) \div 100, balance - MinBalance)

\* (effectiveTradeAmount * (1 - slippage)) / token.price
TokensReceived(effectiveTradeAmount, slippage, price) ==
  (effectiveTradeAmount - ((effectiveTradeAmount * slippage) \div 1000)) \div price

\* An executeTrade that reports the tokens and the trade size whatever the status.
BuyTradeKeepsAmount(s, userId, tx, tradePercentage, gasUsed, slippage, willSucceed) ==
  LET st == getUserStats(s, userId)
      token == TokenOf(tx)
      tradeAmountEur == TradeAmountEur(st.balance, tradePercentage)
      gasFeeEur == GasFeeEur(gasUsed, tx.gasPrice + 1)
      analysis == analyzeAndSnipe(s, userId, tx, willSucceed)
  IN [ type |-> "buy",
       tokenAddress |-> token.address,
       tokenSymbol |-> token.symbol,
       amount |-> TokensReceived(tradeAmountEur - gasFeeEur, slippage, token.price),
       price |-> token.price,
       gasUsed |-> gasUsed,
       gasFee |-> gasFeeEur,
       totalCost |-> tradeAmountEur,
       profit |-> 0,
       status |-> IF analysis.reason = "Good opportunity detected"
                  THEN "completed" ELSE "failed" ]

\* An executeTrade that pays the gas price of the event, without the offset.
BuyTradeAtEventGasPrice(s, userId, tx, tradePercentage, gasUsed, slippage, willSucceed) ==
  LET st == getUserStats(s, userId)
      token == TokenOf(tx)
      tradeAmountEur == TradeAmountEur(st.balance, tradePercentage)
      gasFeeEur == GasFeeEur(gasUsed, tx.gasPrice)
      effectiveTradeAmount == tradeAmountEur - gasFeeEur
      tokensReceived == TokensReceived(effectiveTradeAmount, slippage, token.price)
      analysis == analyzeAndSnipe(s, userId, tx, willSucceed)
      status == IF analysis.reason = "Good opportunity detected"
                THEN "completed" ELSE "failed"
  IN [ type |-> "buy",
       tokenAddress |-> token.address,
       tokenSymbol |-> token.symbol,
       amount |-> IF status = "completed" THEN tokensReceived ELSE 0,
       price |-> token.price,
       gasUsed |-> gasUsed,
       gasFee |-> gasFeeEur,
       totalCost |-> IF status = "completed" THEN tradeAmountEur ELSE gasFeeEur,
       profit |-> 0,
       status |-> status ]

\* The Trade MEVSniper.executeTrade builds; the second analyzeAndSnipe decides its status.
BuyTrade(s, userId, tx, tradePercentage, gasUsed, slippage, willSucceed) ==
  LET st == getUserStats(s, userId)
      token == TokenOf(tx)
      tradeAmountEur == TradeAmountEur(st.balance, tradePercentage)
      ourGasPrice == tx.gasPrice + 1
      gasFeeEur == GasFeeEur(gasUsed, ourGasPrice)
      effectiveTradeAmount == tradeAmountEur - gasFeeEur
      tokensReceived == TokensReceived(effectiveTradeAmount, slippage, token.price)
      analysis == analyzeAndSnipe(s, userId, tx, willSucceed)
      status == IF analysis.reason = "Good opportunity detected"
                THEN "completed" ELSE "failed"
  IN [ type |-> "buy",
       tokenAddress |-> token.address,
       tokenSymbol |-> token.symbol,
       amount |-> IF status = "completed" THEN tokensReceived ELSE 0,
       price |-> token.price,
       gasUsed |-> gasUsed,
       gasFee |-> gasFeeEur,
       totalCost |-> IF status = "completed" THEN tradeAmountEur ELSE gasFeeEur,
       profit |-> 0,
       status |-> status ]

\* The Trade MEVSniper.sellPosition builds for a held position.
SellTrade(position, percentage, priceChange, gasPrice) ==
  LET sellAmount == Div(position.amount * percentage, 100)
      currentPrice == position.entryPrice + Div(position.entryPrice * priceChange, 100)
      gasUsed == (GasLimit * 7) \div 10
      gasFeeEur == GasFeeEur(gasUsed, gasPrice)
      sellValueEur == sellAmount * currentPrice
      netValue == sellValueEur - gasFeeEur
  IN [ type |-> "sell",
       tokenAddress |-> position.tokenAddress,
       tokenSymbol |-> position.tokenSymbol,
       amount |-> sellAmount,
       price |-> currentPrice,
       gasUsed |-> gasUsed,
       gasFee |-> gasFeeEur,
       totalCost |-> netValue,
       profit |-> (currentPrice - position.entryPrice) * sellAmount,
       status |-> "completed" ]


\* ------------------------------------------------------------- state
Init ==
  /\ stats = << >>
  /\ listeners = << >>
  /\ isMonitoring = FALSE
  /\ monitoringInterval = 0
  /\ timers = {}
  /\ handlers = {}
  /\ nextTx = 0
  /\ applied = [ u \in Users |-> << >> ]
  /\ reply = [ user |-> 0, msg |-> "none" ]
  /\ staleTimers = {}
  /\ rearmed = FALSE
  /\ clock = [ now |-> 0, armedAt |-> 0, delay |-> 0 ]

Reply(userId, msg) == [ user |-> userId, msg |-> msg ]

\* ------------------------------------------------- front-end operations
\* A startSniping without the balance check.
CanEngageAlways(st) == TRUE

\* CopyTraderBot.startSniping: the balance a user needs to engage.
CanEngage(st) == st.balance >= MinBalance

StartSniping(userId, delayDraws) ==
  IF isUserMonitoring(userId)
  THEN /\ reply' = Reply(userId, "Sniping is already active")
       /\ UNCHANGED << stats, listeners, isMonitoring, monitoringInterval, timers,
                       handlers, nextTx, applied, staleTimers, rearmed, clock >>
  ELSE /\ stats' = EnsureStats(stats, userId)
       /\ IF ~CanEngage(getUserStats(stats, userId))
          THEN /\ reply' = Reply(userId, "Insufficient balance to start sniping")
               /\ UNCHANGED << listeners, isMonitoring, monitoringInterval, timers,
                               staleTimers, rearmed, clock >>
          ELSE /\ \E random \in delayDraws :
                    startMonitoring(userId, [ userId |-> userId ], random)
               /\ reply' = Reply(userId, "Sniping Started")
       /\ UNCHANGED << handlers, nextTx, applied >>

StopSniping(userId) ==
  IF ~isUserMonitoring(userId)
  THEN /\ reply' = Reply(userId, "Sniping is not active")
       /\ UNCHANGED << stats, listeners, isMonitoring, monitoringInterval, timers,
                       handlers, nextTx, applied, staleTimers, rearmed, clock >>
  ELSE /\ stopMonitoring(userId)
       /\ reply' = Reply(userId, "Sniping Stopped")
       /\ UNCHANGED << stats, handlers, nextTx, applied >>

\* /reset (handleReset) and the reset_stats button: both unsubscribe the user and
\* reset the ledger before they suspend.
HandleReset(userId) ==
  /\ IF isUserMonitoring(userId)
     THEN stopMonitoring(userId)
     ELSE UNCHANGED << listeners, isMonitoring, monitoringInterval, timers,
                       staleTimers, rearmed, clock >>
  /\ stats' = resetStats(stats, userId)
  /\ reply' = Reply(userId, "Statistics reset")
  /\ UNCHANGED << handlers, nextTx, applied >>

\* A sell that submits a failed trade with the fee when it finds no position.
HandleSellChargesFee(userId, tokenAddress, percentage, priceChange, gasPrice) ==
  LET st == getUserStats(stats, userId)
      i == FindIndex(st.activePositions, tokenAddress)
      gasFeeEur == GasFeeEur((GasLimit * 7) \div 10, gasPrice)
  IN /\ st.totalTrades < MaxTrades
     /\ IF i = 0
        THEN /\ stats' = addTrade(stats, userId,
                           [ type |-> "sell",
                             tokenAddress |-> tokenAddress,
                             tokenSymbol |-> TokenByAddress(tokenAddress).symbol,
                             amount |-> 0,
                             price |-> 0,
                             gasUsed |-> (GasLimit * 7) \div 10,
                             gasFee |-> gasFeeEur,
                             totalCost |-> gasFeeEur,
                             profit |-> 0,
                             status |-> "failed" ])
             /\ reply' = Reply(userId, "Position not found")
        ELSE /\ stats' = addTrade(stats, userId,
                           SellTrade(st.activePositions[i], percentage, priceChange, gasPrice))
             /\ reply' = Reply(userId, "Sell Order Executed")
     /\ UNCHANGED << listeners, isMonitoring, monitoringInterval, timers,
                     handlers, nextTx, applied, staleTimers, rearmed, clock >>

\* handleSell -> MEVSniper.sellPosition
HandleSell(userId, tokenAddress, percentage, priceChange, gasPrice) ==
  LET st == getUserStats(stats, userId)
      i == FindIndex(st.activePositions, tokenAddress)
  IN /\ st.totalTrades < MaxTrades
     /\ IF i = 0
        THEN /\ stats' = EnsureStats(stats, userId)
             /\ reply' = Reply(userId, "Position not found")
        ELSE /\ stats' = addTrade(stats, userId,
                           SellTrade(st.activePositions[i], percentage, priceChange, gasPrice))
             /\ reply' = Reply(userId, "Sell Order Executed")
     /\ UNCHANGED << listeners, isMonitoring, monitoringInterval, timers,
                     handlers, nextTx, applied, staleTimers, rearmed, clock >>

\* dashboard / positions / history views: getUserStats only
ViewStats(userId) ==
  /\ stats' = EnsureStats(stats, userId)
  /\ UNCHANGED << listeners, isMonitoring, monitoringInterval, timers,
                  handlers, nextTx, applied, reply, staleTimers, rearmed, clock >>

\* ---------------------------------------------------- generator timer
\* The event generateSimulatedTransaction builds.
MakeTx(id, token, isBuy, amountEth, gasPrice) ==
  [ id |-> id,
    type |-> "swap",
    gasPrice |-> gasPrice,
    tokenIn |-> IF isBuy THEN "ETH" ELSE DEMO_TOKENS[token].symbol,
    tokenOut |-> IF isBuy THEN DEMO_TOKENS[token].symbol ELSE "ETH",
    amountIn |-> amountEth ]

\* A generator that hands each event to one subscriber only.
RecipientsOne(ls) ==
  IF DOMAIN ls = {} THEN {} ELSE { CHOOSE u \in DOMAIN ls : \A v \in DOMAIN ls : u <= v }

\* The users whose callback generateSimulatedTransaction invokes.
Recipients(ls) == DOMAIN ls

\* A generator that notifies every user with a ledger, subscribed or not.
DeliveredToKnownUsers(s, ls, tx, coins) ==
  { [ user |-> u, tx |-> tx, pc |-> "opportunity",
      reason |-> analyzeAndSnipe(s, u, tx, TRUE).reason,
      status |-> "none" ] :
    u \in { v \in DOMAIN s : analyzeAndSnipe(s, v, tx, TRUE).shouldSnipe } }

\* A handler that goes on without looking at analysis.shouldSnipe.
DeliveredWithoutCheck(s, ls, tx, coins) ==
  { [ user |-> u, tx |-> tx, pc |-> "opportunity",
      reason |-> analyzeAndSnipe(s, u, tx, coins[u]).reason,
      status |-> "none" ] : u \in Recipients(ls) }

\* The synchronous part of handleMempoolTransaction for every recipient: the
\* analysis; an accepted event leaves the handler suspended on the first message.
Delivered(s, ls, tx, coins) ==
  { [ user |-> u, tx |-> tx, pc |-> "opportunity",
      reason |-> analyzeAndSnipe(s, u, tx, coins[u]).reason,
      status |-> "none" ] :
    u \in { v \in Recipients(ls) : analyzeAndSnipe(s, v, tx, coins[v]).shouldSnipe } }

AllStats(s, us) == [ u \in DOMAIN s \cup us |-> getUserStats(s, u) ]

\* A timer callback that generates the event and does not call scheduleNext.
TimerFiresOnce(t, token, isBuy, amountEth, gasPrice, coins, maxTx, random) ==
  /\ t \in timers
  /\ isMonitoring => nextTx < maxTx
  /\ IF isMonitoring
     THEN   LET tx == MakeTx(nextTx + 1, token, isBuy, amountEth, gasPrice)
            IN /\ nextTx' = nextTx + 1
               /\ handlers' = handlers \cup Delivered(stats, listeners, tx, coins)
               /\ stats' = AllStats(stats, Recipients(listeners))
               /\ timers' = timers \ {t}
               /\ rearmed' = FALSE
               /\ clock' = [ clock EXCEPT !.now = clock.armedAt + clock.delay ]
               /\ UNCHANGED monitoringInterval
     ELSE /\ timers' = timers \ {t}
          /\ UNCHANGED << nextTx, handlers, stats, monitoringInterval, rearmed, clock >>
  /\ staleTimers' = staleTimers \ {t}
  /\ UNCHANGED << listeners, isMonitoring, applied, reply >>

\* The setTimeout callback of scheduleNext.
TimerFires(t, token, isBuy, amountEth, gasPrice, coins, maxTx, random) ==
  /\ t \in timers
  /\ isMonitoring => nextTx < maxTx
  /\ IF isMonitoring
     THEN   LET tx == MakeTx(nextTx + 1, token, isBuy, amountEth, gasPrice)
                h == NewHandle(timers \ {t})
            IN /\ nextTx' = nextTx + 1
               /\ handlers' = handlers \cup Delivered(stats, listeners, tx, coins)
               /\ stats' = AllStats(stats, Recipients(listeners))
               /\ monitoringInterval' = h
               /\ timers' = (timers \ {t}) \cup {h}
               /\ rearmed' = FALSE
               /\ clock' = scheduleNext([ clock EXCEPT !.now = clock.armedAt + clock.delay ],
                                        random)
     ELSE /\ timers' = timers \ {t}
          /\ UNCHANGED << nextTx, handlers, stats, monitoringInterval, rearmed, clock >>
  /\ staleTimers' = staleTimers \ {t}
  /\ UNCHANGED << listeners, isMonitoring, applied, reply >>

\* ------------------------------------------- handleMempoolTransaction
\* A handler that runs executeTrade again after a failed trade.
ExecuteTradeRetry(h, tradePercentage, gasUsed, slippage, willSucceed) ==
  /\ h \in handlers
  /\ h.pc = "opportunity"
  /\ LET trade == BuyTrade(stats, h.user, h.tx, tradePercentage, gasUsed,
                           slippage, willSucceed)
     IN /\ stats' = addTrade(stats, h.user, trade)
        /\ handlers' = IF trade.status = "failed" THEN handlers
                        ELSE (handlers \ {h}) \cup
                               { [ h EXCEPT !.pc = "result", !.status = trade.status ] }
  /\ applied' = [ applied EXCEPT ![h.user] = Append(@, h.tx.id) ]
  /\ UNCHANGED << listeners, isMonitoring, monitoringInterval, timers,
                  nextTx, reply, staleTimers, rearmed, clock >>

\* The first message was sent: executeTrade runs and the result message is sent.
ExecuteTrade(h, tradePercentage, gasUsed, slippage, willSucceed) ==
  /\ h \in handlers
  /\ h.pc = "opportunity"
  /\ LET trade == BuyTrade(stats, h.user, h.tx, tradePercentage, gasUsed,
                           slippage, willSucceed)
     IN /\ stats' = addTrade(stats, h.user, trade)
        /\ handlers' = (handlers \ {h}) \cup
                         { [ h EXCEPT !.pc = "result", !.status = trade.status ] }
  /\ applied' = [ applied EXCEPT ![h.user] = Append(@, h.tx.id) ]
  /\ UNCHANGED << listeners, isMonitoring, monitoringInterval, timers,
                  nextTx, reply, staleTimers, rearmed, clock >>

\* The result message was sent: the balance check, and stopSniping when it fails.
AfterResult(h) ==
  /\ h \in handlers
  /\ h.pc = "result"
  /\ handlers' = handlers \ {h}
  /\ stats' = EnsureStats(stats, h.user)
  /\ IF getUserStats(stats, h.user).balance < MinBalance
     THEN /\ IF isUserMonitoring(h.user)
             THEN stopMonitoring(h.user)
             ELSE UNCHANGED << listeners, isMonitoring, monitoringInterval, timers,
                               staleTimers, rearmed, clock >>
          /\ reply' = Reply(h.user, "Insufficient balance. Sniping stopped")
     ELSE UNCHANGED << listeners, isMonitoring, monitoringInterval, timers,
                       staleTimers, rearmed, clock, reply >>
  /\ UNCHANGED << nextTx, applied >>

\* The draws of one market event and of each recipient's first analysis.
Fire(tokens, gasPrices, coinValues, maxTx, delayDraws) ==
  \E t \in timers, token \in tokens, isBuy \in BOOLEAN,
     amountEth \in EventAmountsMilliEth, gasPrice \in gasPrices,
     coins \in [ DOMAIN listeners -> coinValues ], random \in delayDraws :
       TimerFires(t, token, isBuy, amountEth, gasPrice, coins, maxTx, random)

\* One user and everything that user, the generator and the handlers can do.
TheUser == CHOOSE u \in Users : \A v \in Users : u <= v

Next ==
  \/ StartSniping(TheUser, FixedDelayDraws)
  \/ StopSniping(TheUser)
  \/ HandleReset(TheUser)
  \/ \E a \in EventTokens, p \in SellPercentages, pc \in PriceChangesPercent,
        g \in SellGasPrices : HandleSell(TheUser, a, p, pc, g)
  \/ ViewStats(TheUser)
  \/ Fire(EventTokens, EventGasPrices, BOOLEAN, MaxTx, FixedDelayDraws)
  \/ \E h \in handlers, p \in TradePercentages, g \in GasUsedChoices,
        s \in SlippagesPerMille, w \in BOOLEAN : ExecuteTrade(h, p, g, s, w)
  \/ \E h \in handlers : AfterResult(h)

Spec == Init /\ [][Next]_vars

\* The generator and its subscribers: every user subscribes and unsubscribes while
\* the timer fires; the handlers stay suspended on their first message.
NextMonitor ==
  \/ \E u \in Users : StartSniping(u, FixedDelayDraws)
  \/ \E u \in Users : StopSniping(u)
  \/ \E u \in Users : HandleReset(u)
  \/ Fire({1}, {50}, {TRUE}, MaxTx, FixedDelayDraws)

SpecMonitor == Init /\ [][NextMonitor]_vars

\* The event loop runs a timer callback that is due: the generator's timer is
\* weakly fair. The commands of the users are not.
SpecMonitorFair ==
  SpecMonitor /\ WF_vars(Fire({1}, {50}, {TRUE}, MaxTx, FixedDelayDraws))

HandlersOf(u) == { h \in handlers : h.user = u }

\* Two subscribers: both subscribe and unsubscribe, the handlers of the first
\* user run to the end, those of the second stay suspended on their message.
NextPair ==
  \/ \E u \in {1, 2} : StartSniping(u, FixedDelayDraws)
  \/ \E u \in {1, 2} : StopSniping(u)
  \/ Fire({1}, {50}, {TRUE}, MaxPairTx, FixedDelayDraws)
  \/ \E h \in HandlersOf(TheUser), w \in BOOLEAN : ExecuteTrade(h, 25, 150000, 4, w)
  \/ \E h \in HandlersOf(TheUser) : AfterResult(h)
  \/ HandleReset(TheUser)

SpecPair == Init /\ [][NextPair]_vars

\* ------------------------------------------- the ledger and the evaluator
\* StatsTracker.addTrade, MEVSniper.analyzeAndSnipe and MEVSniper.sellPosition
\* called directly, on the ledgers that trades from the sets below produce.
TxTypes == {"swap", "transfer"}

TxAmountsMilliEth == {499, 500}

TxInputs ==
  { [ MakeTx(0, 1, isBuy, amountEth, 10) EXCEPT !.type = ty ] :
      isBuy \in BOOLEAN, amountEth \in TxAmountsMilliEth, ty \in TxTypes }

TradeInput(type, tokenAddress, amount, price, gasFee, totalCost, profit, status) ==
  [ type |-> type,
    tokenAddress |-> tokenAddress,
    tokenSymbol |-> TokenByAddress(tokenAddress).symbol,
    amount |-> amount,
    price |-> price,
    gasUsed |-> 150000,
    gasFee |-> gasFee,
    totalCost |-> totalCost,
    profit |-> profit,
    status |-> status ]

\* amounts in tokens, prices in millionths of a EUR per token, money in
\* millionths of a EUR
TradeInputs ==
  { TradeInput("buy", 1, 1000, 10, 50000, 2050000, 0, "completed"),
    TradeInput("buy", 1, 3000, 30, 50000, 16950000, 0, "completed"),
    TradeInput("sell", 1, 500, 12, 1000, 5000, 1000, "completed"),
    TradeInput("sell", 2, 500, 12, 1000, 5000, 1000, "completed"),
    TradeInput("buy", 1, 1000, 10, 30000, 2050000, 0, "failed") }

LedgerSellTokens == {1, 2}

LedgerSellPercentages == {50, 100, 150}

\* analyzeAndSnipe called for one event; the record keeps what it returned.
Analyze(userId, tx, willSucceed) ==
  LET analysis == analyzeAndSnipe(stats, userId, tx, willSucceed)
  IN /\ handlers' = { [ user |-> userId, tx |-> tx, pc |-> "analysed",
                        reason |-> analysis.reason,
                        status |-> IF analysis.shouldSnipe THEN "accepted"
                                   ELSE "rejected" ] }
     /\ stats' = EnsureStats(stats, userId)
     /\ UNCHANGED << listeners, isMonitoring, monitoringInterval, timers,
                     nextTx, applied, reply, staleTimers, rearmed, clock >>

\* StatsTracker.addTrade called with one trade.
AddTrade(userId, trade) ==
  /\ getUserStats(stats, userId).totalTrades < MaxTrades
  /\ stats' = addTrade(stats, userId, trade)
  /\ UNCHANGED << listeners, isMonitoring, monitoringInterval, timers,
                  handlers, nextTx, applied, reply, staleTimers, rearmed, clock >>

NextLedger ==
  \/ \E tx \in TxInputs, w \in BOOLEAN : Analyze(TheUser, tx, w)
  \/ \E trade \in TradeInputs : AddTrade(TheUser, trade)
  \/ \E a \in LedgerSellTokens, p \in LedgerSellPercentages,
        pc \in PriceChangesPercent, g \in SellGasPrices :
        HandleSell(TheUser, a, p, pc, g)

SpecLedger == Init /\ [][NextLedger]_vars

\* ----------------------------------------------- the tracker, two users
\* StatsTracker's methods called directly for two users.
TrackerUsers == {1, 2}

TrackerTradeInputs ==
  { TradeInput("buy", 1, 1000, 10, 50000, 2050000, 0, "completed"),
    TradeInput("buy", 2, 2000, 20, 50000, 3000000, 0, "completed"),
    TradeInput("sell", 1, 500, 12, 1000, 5000, 1000, "completed"),
    TradeInput("buy", 1, 0, 10, 30000, 30000, 0, "failed"),
    TradeInput("buy", 1, 1000, 10, 40000, 2050000, 0, "pending") }

TrackerPrices == {12}

ResetStats(userId) ==
  /\ stats' = resetStats(stats, userId)
  /\ UNCHANGED << listeners, isMonitoring, monitoringInterval, timers,
                  handlers, nextTx, applied, reply, staleTimers, rearmed, clock >>

UpdatePositionPrices(userId, tokenAddress, newPrice) ==
  /\ stats' = updatePositionPrices(stats, userId, tokenAddress, newPrice)
  /\ UNCHANGED << listeners, isMonitoring, monitoringInterval, timers,
                  handlers, nextTx, applied, reply, staleTimers, rearmed, clock >>

NextTracker ==
  \/ \E u \in TrackerUsers, trade \in TrackerTradeInputs : AddTrade(u, trade)
  \/ \E u \in TrackerUsers : ResetStats(u)
  \/ \E u \in TrackerUsers : ViewStats(u)
  \/ \E u \in TrackerUsers, a \in LedgerSellTokens, price \in TrackerPrices :
        UpdatePositionPrices(u, a, price)

SpecTracker == Init /\ [][NextTracker]_vars

\* --------------------------------------------------- a long trade history
\* The k-th trade a user submits, stamped with k as its timestamp; failed,
\* completed and pending trades take turns.
HistoryTrade(k) ==
  ( IF k % 3 = 0 THEN TradeInput("buy", 1, 0, 10, 30000, 30000, 0, "failed")
    ELSE IF k % 3 = 1 THEN TradeInput("buy", 1, 1000, 10, 50000, 60000, 0, "completed")
    ELSE TradeInput("buy", 1, 1000, 10, 40000, 60000, 0, "pending") )
  @@ [ timestamp |-> k ]

\* addTrade with the user's next trade.
AddStampedTrade(userId) ==
  /\ getUserStats(stats, userId).totalTrades < MaxHistoryTrades
  /\ stats' = addTrade(stats, userId,
                       HistoryTrade(getUserStats(stats, userId).totalTrades + 1))
  /\ UNCHANGED << listeners, isMonitoring, monitoringInterval, timers,
                  handlers, nextTx, applied, reply, staleTimers, rearmed, clock >>

NextHistory == \E u \in TrackerUsers : AddStampedTrade(u)

SpecHistory == Init /\ [][NextHistory]_vars

\* The long history with resets in between.
NextHistoryReset ==
  \/ \E u \in TrackerUsers : AddStampedTrade(u)
  \/ \E u \in TrackerUsers : ResetStats(u)

SpecHistoryReset == Init /\ [][NextHistoryReset]_vars

\* One engaged user who sells while events arrive; the sell draws a gas price
\* near the top of its range.
StarveEventGasPrices == {14}          \* (10 + random*40).toFixed(0) gwei
StarveSellGasPrices == {48, 49}       \* minGasPrice + random*(max - min)

NextStarve ==
  \/ StartSniping(TheUser, FixedDelayDraws)
  \/ StopSniping(TheUser)
  \/ \E a \in EventTokens, p \in SellPercentages, pc \in PriceChangesPercent,
        g \in StarveSellGasPrices : HandleSell(TheUser, a, p, pc, g)
  \/ Fire(EventTokens, StarveEventGasPrices, BOOLEAN, MaxTx, FixedDelayDraws)
  \/ \E h \in handlers, p \in TradePercentages, g \in GasUsedChoices,
        s \in SlippagesPerMille, w \in BOOLEAN : ExecuteTrade(h, p, g, s, w)
  \/ \E h \in handlers : AfterResult(h)

SpecStarve == Init /\ [][NextStarve]_vars

\* Time passes while the generator is idle and no timer is pending.
TimePasses(gap) ==
  /\ ~isMonitoring
  /\ timers = {}
  /\ clock.now < MaxClockMs
  /\ clock' = [ clock EXCEPT !.now = clock.now + gap ]
  /\ UNCHANGED << stats, listeners, isMonitoring, monitoringInterval, timers,
                  handlers, nextTx, applied, reply, staleTimers, rearmed >>

\* The generator's clock: two users subscribe and unsubscribe, the timer fires
\* after the delay it was armed with, and time passes while the generator is idle.
NextClock ==
  \/ \E u \in {1, 2} : StartSniping(u, DelayDraws)
  \/ \E u \in {1, 2} : StopSniping(u)
  \/ Fire({1}, {50}, {TRUE}, MaxTx, DelayDraws)
  \/ \E gap \in IdleGapsMs : TimePasses(gap)

SpecClock == Init /\ [][NextClock]_vars

\* Two engaged users whose handlers and sells interleave.
NextShared ==
  \/ \E u \in TrackerUsers : StartSniping(u, FixedDelayDraws)
  \/ \E u \in TrackerUsers, a \in EventTokens, p \in SellPercentages,
        pc \in PriceChangesPercent, g \in SellGasPrices : HandleSell(u, a, p, pc, g)
  \/ Fire(EventTokens, StarveEventGasPrices, {TRUE}, MaxSharedTx, FixedDelayDraws)
  \/ \E h \in handlers, p \in TradePercentages, g \in GasUsedChoices,
        s \in SlippagesPerMille, w \in BOOLEAN : ExecuteTrade(h, p, g, s, w)
  \/ \E h \in handlers : AfterResult(h)

SpecShared == Init /\ [][NextShared]_vars


\* ========================================================== properties
Range(seq) == { seq[i] : i \in 1..Len(seq) }

Count(seq, x) == Cardinality({ i \in 1..Len(seq) : seq[i] = x })

IsCompletedBuy(trade) == trade.status = "completed" /\ trade.type = "buy"

IsCompletedSell(trade) == trade.status = "completed" /\ trade.type = "sell"

IsFailed(trade) == trade.status = "failed"

\* The events for which a handler of user u is in flight.
InFlight(hs, u) == { h.tx.id : h \in { g \in hs : g.user = u } }

\* C1: a user's balance is never negative, whatever engage, events, sells,
\* disengage and reset did.
C1_BalanceNeverNegative ==
  \A u \in DOMAIN stats : stats[u].balance >= 0

\* C2: every open position has a quantity above 0.
C2_PositionsPositive ==
  \A u \in DOMAIN stats :
    \A i \in 1..Len(stats[u].activePositions) : stats[u].activePositions[i].amount > 0

\* C3: one addTrade call moves the balance by -totalCost for a completed buy, by
\* +totalCost for a completed sell and by -gasFee for a failed trade.
C3_BalanceConservation ==
  [][ \A u \in DOMAIN stats' :
        LET before == getUserStats(stats, u)
            after == stats'[u]
        IN after.totalTrades = before.totalTrades + 1 =>
             LET trade == after.tradeHistory[1]
             IN /\ IsCompletedBuy(trade) => after.balance = before.balance - trade.totalCost
                /\ IsCompletedSell(trade) => after.balance = before.balance + trade.totalCost
                /\ IsFailed(trade) => after.balance = before.balance - trade.gasFee
    ]_vars

\* C3 witness: a ledger that took a completed buy, a completed sell and a failed trade.
C3_Witness ==
  \E u \in DOMAIN stats :
    /\ \E i \in 1..Len(stats[u].tradeHistory) : IsCompletedBuy(stats[u].tradeHistory[i])
    /\ \E i \in 1..Len(stats[u].tradeHistory) : IsCompletedSell(stats[u].tradeHistory[i])
    /\ \E i \in 1..Len(stats[u].tradeHistory) : IsFailed(stats[u].tradeHistory[i])

\* C4: for one user, trades reach the ledger in the order in which their events
\* were evaluated (events are numbered in the order of their evaluation).
C4_AppliedInEvaluationOrder ==
  \A u \in Users :
    \A i, j \in 1..Len(applied[u]) : i < j => applied[u][i] < applied[u][j]

\* C5: the clock runs (isMonitoring with its timer pending) exactly when a
\* subscriber is registered, and no event is generated without a subscriber.
C5_ClockRunsIffSubscribed ==
  /\ [] /\ (DOMAIN listeners # {}) => (isMonitoring /\ timers = {monitoringInterval})
        /\ (DOMAIN listeners = {}) => (~isMonitoring /\ timers = {})
  /\ [][ nextTx' # nextTx => DOMAIN listeners # {} ]_vars

\* C5 witness: the last subscriber left after the generator had emitted events.
C5_Witness ==
  /\ DOMAIN listeners = {}
  /\ monitoringInterval # 0
  /\ nextTx >= 1

\* C6: while the generator runs, no timer armed before an idle period is pending,
\* so the first event after a re-subscription comes from the timer armed by it.
C6_NoStaleTimer ==
  isMonitoring => (staleTimers \cap timers = {} /\ monitoringInterval \in timers)

\* C6 witness: a subscription ended an idle period that followed events, and the
\* timer it armed is the only one pending.
C6_Witness ==
  /\ rearmed
  /\ isMonitoring
  /\ nextTx >= 1
  /\ timers = {monitoringInterval}

\* C7: a step taken while u is unsubscribed delivers no event to u, and a handler
\* of u that is in flight stays in flight until it has applied its one trade.
C7_NoDeliveryAfterUnsubscribe ==
  [][ \A u \in Users :
        /\ ~isUserMonitoring(u) => InFlight(handlers', u) \subseteq InFlight(handlers, u)
        /\ \A h \in handlers :
             (h.user = u /\ h.pc = "opportunity" /\ ~isUserMonitoring(u)) =>
               \/ h \in handlers'
               \/ /\ [ h EXCEPT !.pc = "result", !.status = "completed" ] \in handlers'
                     \/ [ h EXCEPT !.pc = "result", !.status = "failed" ] \in handlers'
                  /\ applied'[u] = Append(applied[u], h.tx.id)
                  /\ h.tx.id \notin Range(applied[u])
    ]_vars

\* C7 witness: the other user is subscribed and has received an event that the
\* unsubscribed user, whose earlier handler has applied its trade, has not.
C7_Witness ==
  \E u \in Users, v \in Users :
    /\ u # v
    /\ ~isUserMonitoring(u)
    /\ isUserMonitoring(v)
    /\ applied[u] # << >>
    /\ \E h \in handlers : h.user = v /\ h.tx.id \notin InFlight(handlers, u) \cup Range(applied[u])

\* C8: an event reaches every subscriber once, the same event for all of them,
\* and nobody else (a subscriber whose balance is below the minimum rejects it).
C8_Broadcast ==
  [][ nextTx' = nextTx + 1 =>
        LET new == handlers' \ handlers
        IN /\ \A h \in new : h.user \in DOMAIN listeners /\ h.tx.id = nextTx'
           /\ \A h1, h2 \in new : h1.tx = h2.tx /\ (h1.user = h2.user => h1 = h2)
           /\ new # {} =>
                \A u \in DOMAIN listeners :
                  getUserStats(stats, u).balance >= MinBalance => \E h \in new : h.user = u
    ]_vars

\* C8 witness: two subscribers hold a handler for the same event.
C8_Witness ==
  \E h1, h2 \in handlers : h1.user # h2.user /\ h1.tx = h2.tx

\* C9: per user and event at most one trade is applied, and a handler in flight
\* has applied exactly one trade once it is past executeTrade, none before, and
\* leaves only after it.
C9_OneTradePerEvent ==
  /\ [] /\ \A u \in Users : \A i, j \in 1..Len(applied[u]) :
             applied[u][i] = applied[u][j] => i = j
        /\ \A h \in handlers :
             Count(applied[h.user], h.tx.id) = IF h.pc = "result" THEN 1 ELSE 0
  /\ [][ \A h \in handlers :
           h.pc = "opportunity" =>
             \/ h \in handlers'
             \/ Count(applied'[h.user], h.tx.id) = 1
       ]_vars

\* C9 witness: a handler applied its trade after the user was reset and
\* disengaged while another handler of the user is still waiting.
C9_Witness ==
  \E h1, h2 \in handlers :
    /\ h1.user = h2.user
    /\ h1.pc = "result"
    /\ h2.pc = "opportunity"
    /\ ~isUserMonitoring(h1.user)
    /\ reply = Reply(h1.user, "Statistics reset")

\* C10: engage subscribes a user only with a balance of at least the minimum; an
\* engaged user gets "already active" and nothing changes; a user below the
\* minimum gets an error and stays idle.
C10_Engage ==
  [][ \A u \in Users :
        /\ (~isUserMonitoring(u) /\ u \in DOMAIN listeners') =>
             /\ getUserStats(stats, u).balance >= MinBalance
             /\ reply' = Reply(u, "Sniping Started")
        /\ (reply' # reply /\ reply' = Reply(u, "Sniping Started")) =>
             ~isUserMonitoring(u) /\ u \in DOMAIN listeners'
        /\ (reply' # reply /\ reply' = Reply(u, "Sniping is already active")) =>
             /\ isUserMonitoring(u)
             /\ UNCHANGED << stats, listeners, isMonitoring, monitoringInterval,
                             timers, handlers, nextTx, applied >>
        /\ (reply' # reply /\ reply' = Reply(u, "Insufficient balance to start sniping")) =>
             /\ ~isUserMonitoring(u)
             /\ getUserStats(stats, u).balance < MinBalance
             /\ UNCHANGED << listeners, isMonitoring, monitoringInterval, timers,
                             handlers, nextTx, applied >>
    ]_vars

\* C10 witness: an idle user below the minimum balance was refused.
C10_Witness ==
  \E u \in DOMAIN stats :
    /\ reply = Reply(u, "Insufficient balance to start sniping")
    /\ stats[u].balance < MinBalance
    /\ ~isUserMonitoring(u)

\* C11: stopSniping can always run for an engaged user, whatever the balance,
\* positions or handlers in flight, and it leaves the user unregistered.
C11_Disengage ==
  /\ [] \A u \in Users :
          isUserMonitoring(u) =>
            ENABLED (StopSniping(u) /\ reply' = Reply(u, "Sniping Stopped")
                       /\ u \notin DOMAIN listeners')
  /\ [][ \A u \in Users :
           (reply' # reply /\ reply' = Reply(u, "Sniping Stopped")) =>
             /\ isUserMonitoring(u)
             /\ u \notin DOMAIN listeners'
             /\ stats' = stats /\ handlers' = handlers
       ]_vars

\* C11 witness: a user holding a position was disengaged by stopSniping with a
\* handler in flight.
C11_Witness ==
  \E u \in DOMAIN stats :
    /\ reply = Reply(u, "Sniping Stopped")
    /\ ~isUserMonitoring(u)
    /\ stats[u].activePositions # << >>
    /\ \E h \in handlers : h.user = u /\ h.pc = "opportunity"

C13_RejectedNoEffect ==
  [][ nextTx' = nextTx + 1 =>
        /\ \A h \in handlers' \ handlers :
             analyzeAndSnipe(stats, h.user, h.tx, TRUE).shouldSnipe
        /\ \A u \in DOMAIN listeners : getUserStats(stats', u) = getUserStats(stats, u)
        /\ reply' = reply
        /\ applied' = applied
    ]_vars

\* C13 witness: an engaged user has received events, all rejected, and the ledger
\* is the initial one.
C13_Witness ==
  \E u \in DOMAIN listeners :
    /\ nextTx >= 1
    /\ handlers = {}
    /\ applied[u] = << >>
    /\ u \in DOMAIN stats
    /\ stats[u] = NewStats(u)
    /\ reply = Reply(u, "Sniping Started")

\* C14: a failed trade in a history has quantity 0 and a total cost equal to its
\* fee.
C14_FailedTradeShape ==
  \A u \in DOMAIN stats :
    \A i \in 1..Len(stats[u].tradeHistory) :
      LET trade == stats[u].tradeHistory[i]
      IN IsFailed(trade) => (trade.amount = 0 /\ trade.totalCost = trade.gasFee)

\* C14 witness: the history holds a failed trade with a fee, after a completed one.
C14_Witness ==
  \E u \in DOMAIN stats :
    /\ Len(stats[u].tradeHistory) >= 2
    /\ IsFailed(stats[u].tradeHistory[1])
    /\ stats[u].tradeHistory[1].gasFee > 0
    /\ IsCompletedBuy(stats[u].tradeHistory[2])

\* C15: addTrade with a failed trade adds 1 to failedTrades, takes the fee and
\* only the fee from the balance, and leaves positions, successfulTrades and
\* totalProfit as they were.
C15_FailedTradeEffect ==
  [][ \A u \in DOMAIN stats' :
        LET before == getUserStats(stats, u)
            after == stats'[u]
        IN (after.totalTrades = before.totalTrades + 1 /\ IsFailed(after.tradeHistory[1])) =>
             /\ after.failedTrades = before.failedTrades + 1
             /\ after.balance = before.balance - after.tradeHistory[1].gasFee
             /\ after.activePositions = before.activePositions
             /\ after.successfulTrades = before.successfulTrades
             /\ after.totalProfit = before.totalProfit
    ]_vars

\* C15 witness: a failed trade whose total cost differs from its fee was applied
\* to a ledger that holds a position.
C15_Witness ==
  \E u \in DOMAIN stats :
    /\ stats[u].failedTrades = 1
    /\ stats[u].activePositions # << >>
    /\ IsFailed(stats[u].tradeHistory[1])
    /\ stats[u].tradeHistory[1].totalCost # stats[u].tradeHistory[1].gasFee

RECURSIVE SumQuantity(_)
SumQuantity(trades) ==
  IF trades = << >> THEN 0 ELSE Head(trades).amount + SumQuantity(Tail(trades))

RECURSIVE SumQuantityPrice(_)
SumQuantityPrice(trades) ==
  IF trades = << >> THEN 0
  ELSE Head(trades).amount * Head(trades).price + SumQuantityPrice(Tail(trades))

\* The ledger took nothing but completed buys of one asset.
OnlyBuysOf(st, addr) ==
  /\ st.tradeHistory # << >>
  /\ st.totalTrades = Len(st.tradeHistory)
  /\ \A i \in 1..Len(st.tradeHistory) :
       IsCompletedBuy(st.tradeHistory[i]) /\ st.tradeHistory[i].tokenAddress = addr

\* C16: after completed buys of one asset on a ledger without a position in it,
\* the position's quantity is the sum of the quantities and its entry price is
\* sum(q*p)/sum(q); after the first buy it is the trade's price.
C16_WeightedAverage ==
  \A u \in DOMAIN stats : \A addr \in 1..Len(DEMO_TOKENS) :
    OnlyBuysOf(stats[u], addr) =>
      LET st == stats[u]
          i == FindIndex(st.activePositions, addr)
      IN /\ Len(st.activePositions) = 1
         /\ i = 1
         /\ st.activePositions[i].amount = SumQuantity(st.tradeHistory)
         /\ st.activePositions[i].entryPrice =
              Div(SumQuantityPrice(st.tradeHistory), SumQuantity(st.tradeHistory))
         /\ Len(st.tradeHistory) = 1 =>
              st.activePositions[i].entryPrice = st.tradeHistory[1].price

\* C16 witness: 1000 tokens at 10 and 3000 tokens at 30 were bought, in either
\* order.
C16_Witness ==
  \E u \in DOMAIN stats :
    /\ OnlyBuysOf(stats[u], 1)
    /\ Len(stats[u].tradeHistory) = 2
    /\ stats[u].tradeHistory[1].price # stats[u].tradeHistory[2].price
    /\ stats[u].activePositions[1].amount = 4000
    /\ stats[u].activePositions[1].entryPrice = 25

\* C17: addTrade with a completed sell adds 1 to successfulTrades, credits the
\* balance with the trade's totalCost and adds the profit carried in the trade
\* record to totalProfit, whether or not a position in the asset is held.
C17_SellTradeEffect ==
  [][ \A u \in DOMAIN stats' :
        LET before == getUserStats(stats, u)
            after == stats'[u]
        IN (after.totalTrades = before.totalTrades + 1
              /\ IsCompletedSell(after.tradeHistory[1])) =>
             /\ after.successfulTrades = before.successfulTrades + 1
             /\ after.balance = before.balance + after.tradeHistory[1].totalCost
             /\ after.totalProfit = before.totalProfit + after.tradeHistory[1].profit
    ]_vars

\* The position sellPosition finds for the newest trade of u, in the state before.
SoldPosition(before, trade) ==
  before.activePositions[FindIndex(before.activePositions, trade.tokenAddress)]

\* The step is a sell of u's position: the newest trade is a completed sell of a
\* held asset.
SellStep(before, after) ==
  /\ after.totalTrades = before.totalTrades + 1
  /\ IsCompletedSell(after.tradeHistory[1])
  /\ FindIndex(before.activePositions, after.tradeHistory[1].tokenAddress) # 0

\* C18: a sell of the whole position or more removes the position and leaves the
\* balance and totalProfit that a sell of exactly 100% at the same price and fee
\* leaves.
C18_OversellAsFullSell ==
  [][ \A u \in DOMAIN stats' :
        LET before == getUserStats(stats, u)
            after == stats'[u]
        IN (SellStep(before, after)
              /\ after.tradeHistory[1].amount >= SoldPosition(before, after.tradeHistory[1]).amount) =>
             LET trade == after.tradeHistory[1]
                 position == SoldPosition(before, trade)
             IN /\ FindIndex(after.activePositions, trade.tokenAddress) = 0
                /\ after.balance =
                     before.balance + position.amount * trade.price - trade.gasFee
                /\ after.totalProfit =
                     before.totalProfit
                       + (trade.price - position.entryPrice) * position.amount
    ]_vars

\* C19: a sell of an asset the user holds no position in can run, answers
\* "Position not found", submits no trade and leaves the user's ledger as it was.
C19_SellWithoutPosition ==
  /\ [] \A u \in Users, addr \in LedgerSellTokens, p \in LedgerSellPercentages,
           pc \in PriceChangesPercent, g \in SellGasPrices :
          ( /\ FindIndex(getUserStats(stats, u).activePositions, addr) = 0
            /\ getUserStats(stats, u).totalTrades < MaxTrades ) =>
            /\ ENABLED ( /\ HandleSell(u, addr, p, pc, g)
                         /\ reply' = Reply(u, "Position not found")
                         /\ getUserStats(stats', u) = getUserStats(stats, u) )
            /\ ~ ENABLED ( /\ HandleSell(u, addr, p, pc, g)
                           /\ getUserStats(stats', u) # getUserStats(stats, u) )
  /\ [][ \A u \in Users :
           (reply' # reply /\ reply' = Reply(u, "Position not found")) =>
             /\ getUserStats(stats', u) = getUserStats(stats, u)
             /\ UNCHANGED << listeners, isMonitoring, monitoringInterval, timers,
                             handlers, nextTx, applied >>
       ]_vars

\* C19 witness: a user who holds a position in another asset was told that the
\* position was not found.
C19_Witness ==
  \E u \in DOMAIN stats :
    /\ reply = Reply(u, "Position not found")
    /\ stats[u].activePositions # << >>
    /\ stats[u].totalTrades = 1

\* C20: a sell of a percentage in (0,100] of a held position submits one
\* completed sell of that share of the held quantity, with the profit (price -
\* entry price) * sold quantity; the position keeps the held quantity minus the
\* sold one at the same entry price (nothing remains of it after 100%).
C20_SellShare ==
  [][ \A u \in DOMAIN stats' :
        LET before == getUserStats(stats, u)
            after == stats'[u]
        IN SellStep(before, after) =>
             LET trade == after.tradeHistory[1]
                 position == SoldPosition(before, trade)
                 i == FindIndex(after.activePositions, trade.tokenAddress)
             IN /\ \E p \in SellPercentages : trade.amount = Div(position.amount * p, 100)
                /\ trade.profit = (trade.price - position.entryPrice) * trade.amount
                /\ after.totalProfit = before.totalProfit + trade.profit
                /\ IF trade.amount = position.amount
                   THEN i = 0
                   ELSE /\ i # 0
                        /\ after.activePositions[i].amount = position.amount - trade.amount
                        /\ after.activePositions[i].entryPrice = position.entryPrice
    ]_vars

\* C21: a history holds at most 50 trades, the newest first, and they are the
\* trades applied last: entry i of a ledger that took n trades is trade n - i + 1.
C21_HistoryBound ==
  \A u \in DOMAIN stats :
    LET h == stats[u].tradeHistory
        n == stats[u].totalTrades
    IN /\ Len(h) <= 50
       /\ Len(h) = IF n <= 50 THEN n ELSE 50
       /\ \A i \in 1..Len(h) : h[i].timestamp = n - i + 1

\* C21 witness: after 60 trades the history holds trades 60 down to 11.
C21_Witness ==
  \E u \in DOMAIN stats :
    /\ stats[u].totalTrades = 60
    /\ Len(stats[u].tradeHistory) = 50
    /\ stats[u].tradeHistory[1].timestamp = 60
    /\ stats[u].tradeHistory[50].timestamp = 11

RECURSIVE SumFees(_)
SumFees(trades) ==
  IF trades = << >> THEN 0 ELSE Head(trades).gasFee + SumFees(Tail(trades))

\* The step put a trade in front of u's history.
TradeAdded(before, after) ==
  /\ after.tradeHistory # << >>
  /\ after.tradeHistory # before.tradeHistory

\* C22: every addTrade, whatever the trade's status and direction, adds 1 to
\* totalTrades and the trade's fee to totalFees; since creation or the last reset
\* totalTrades is the number of trades applied and totalFees the sum of their fees.
C22_CountAndFees ==
  /\ [] \A u \in DOMAIN stats :
          /\ stats[u].totalTrades = Len(stats[u].tradeHistory)
          /\ stats[u].totalFees = SumFees(stats[u].tradeHistory)
  /\ [][ \A u \in DOMAIN stats' :
           LET before == getUserStats(stats, u)
               after == stats'[u]
           IN TradeAdded(before, after) =>
                /\ after.totalTrades = before.totalTrades + 1
                /\ after.totalFees = before.totalFees + after.tradeHistory[1].gasFee
                /\ Tail(after.tradeHistory) = before.tradeHistory
       ]_vars

\* C22 witness: a ledger took a completed sell and then a pending trade.
C22_Witness ==
  \E u \in DOMAIN stats :
    /\ stats[u].totalTrades = 2
    /\ stats[u].totalFees = 41000
    /\ stats[u].tradeHistory[1].status = "pending"
    /\ IsCompletedSell(stats[u].tradeHistory[2])

\* C23: the stored win rate is 0 for a ledger without trades and otherwise
\* successfulTrades / totalTrades of the current counters as a percentage (in
\* tenths of a percent: 1 of 2 is 500).
C23_WinRate ==
  \A u \in DOMAIN stats :
    /\ stats[u].totalTrades = 0 => stats[u].winRate = 0
    /\ stats[u].totalTrades > 0 =>
         /\ stats[u].winRate * stats[u].totalTrades <= stats[u].successfulTrades * 1000
         /\ (stats[u].winRate + 1) * stats[u].totalTrades > stats[u].successfulTrades * 1000

\* C23 witness: one successful trade of two, stored as 50.0 percent.
C23_Witness ==
  \E u \in DOMAIN stats :
    /\ stats[u].totalTrades = 2
    /\ stats[u].successfulTrades = 1
    /\ stats[u].winRate = 500

\* C24: the open positions of a user hold at most one position per asset.
C24_UniquePositions ==
  \A u \in DOMAIN stats :
    \A i, j \in 1..Len(stats[u].activePositions) :
      stats[u].activePositions[i].tokenAddress = stats[u].activePositions[j].tokenAddress
        => i = j

\* C24 witness: two completed buys of one asset left a single position of it.
C24_Witness ==
  \E u \in DOMAIN stats :
    /\ stats[u].successfulTrades = 2
    /\ Len(stats[u].activePositions) = 1
    /\ stats[u].activePositions[1].tokenAddress = 1
    /\ stats[u].activePositions[1].amount = 2000

\* The ledger of a user who has not traded: the starting balance, zero
\* counters, no positions and no history.
InitialLedger(u) ==
  [ userId |-> u, balance |-> InitialBalance, totalTrades |-> 0,
    successfulTrades |-> 0, failedTrades |-> 0, totalProfit |-> 0,
    totalFees |-> 0, winRate |-> 0, activePositions |-> << >>,
    tradeHistory |-> << >> ]

\* C25: a reset leaves the user with the initial ledger of the same user id,
\* whatever the ledger held, leaves the other ledgers alone, and a second reset
\* changes nothing; the reset command leaves the initial ledger behind.
C25_Reset ==
  /\ [](\A u \in Users :
          LET r == resetStats(stats, u)
          IN /\ DOMAIN r = DOMAIN stats \cup {u}
             /\ r[u] = InitialLedger(u)
             /\ \A v \in DOMAIN stats \ {u} : r[v] = stats[v]
             /\ resetStats(r, u) = r)
  /\ [][ \A u \in Users :
           (reply' # reply /\ reply' = Reply(u, "Statistics reset"))
             => (u \in DOMAIN stats' /\ stats'[u] = InitialLedger(u)) ]_vars

\* C25 witness: the reset command ran for a user whose handlers had applied a
\* trade, and the ledger is the initial one.
C25_Witness ==
  \E u \in Users :
    /\ reply = Reply(u, "Statistics reset")
    /\ Len(applied[u]) > 0
    /\ u \in DOMAIN stats
    /\ stats[u] = InitialLedger(u)

\* C26: reading the ledger of a user without one creates the initial ledger for
\* that user; reading an existing ledger returns it and leaves every ledger as
\* it was; a second read changes nothing; no ledger ever disappears.
C26_LazyCreation ==
  /\ [](\A u \in TrackerUsers :
          LET e == EnsureStats(stats, u)
          IN /\ DOMAIN e = DOMAIN stats \cup {u}
             /\ \A v \in DOMAIN stats : e[v] = stats[v]
             /\ u \notin DOMAIN stats => getUserStats(stats, u) = InitialLedger(u)
             /\ u \in DOMAIN stats => (e = stats /\ getUserStats(stats, u) = stats[u])
             /\ EnsureStats(e, u) = e)
  /\ [][ DOMAIN stats \subseteq DOMAIN stats' ]_vars

\* C26 witness: one user has a ledger with two trades and a position, the other
\* user has an initial ledger.
C26_Witness ==
  \E u, v \in DOMAIN stats :
    /\ u # v
    /\ stats[u].totalTrades = 2
    /\ Len(stats[u].activePositions) = 1
    /\ stats[v] = InitialLedger(v)

\* The fields of a ledger other than its positions.
LedgerTotals(st) ==
  << st.userId, st.balance, st.totalTrades, st.successfulTrades, st.failedTrades,
     st.totalProfit, st.totalFees, st.winRate, st.tradeHistory >>

\* The effect of a price update of asset a to price p, from ledger before to
\* ledger after.
PriceUpdated(before, after, a, p) ==
  /\ LedgerTotals(after) = LedgerTotals(before)
  /\ Len(after.activePositions) = Len(before.activePositions)
  /\ \A i \in 1..Len(before.activePositions) :
       LET old == before.activePositions[i]
           new == after.activePositions[i]
       IN IF old.tokenAddress = a
          THEN /\ new.currentPrice = p
               /\ new.unrealizedPnL = (p - old.entryPrice) * old.amount
               /\ new.amount = old.amount
               /\ new.entryPrice = old.entryPrice
               /\ new.tokenAddress = old.tokenAddress
               /\ new.tokenSymbol = old.tokenSymbol
          ELSE new = old

\* C27: a price update of a held asset sets the position's last-observed price
\* and its unrealized profit to (price - entry price) * quantity and leaves the
\* quantity, the entry price, the balance, the counters, the other positions
\* and the other users' ledgers unchanged; for an asset that is not held the
\* ledger the user reads is the one they read before.
C27_UpdatePositionPrices ==
  \A u \in TrackerUsers, a \in LedgerSellTokens, p \in TrackerPrices :
    LET r == updatePositionPrices(stats, u, a, p)
        before == getUserStats(stats, u)
    IN /\ DOMAIN r = DOMAIN stats \cup {u}
       /\ \A v \in DOMAIN stats \ {u} : r[v] = stats[v]
       /\ PriceUpdated(before, r[u], a, p)
       /\ (\A i \in 1..Len(before.activePositions) :
             before.activePositions[i].tokenAddress # a) => r[u] = before

\* C27 witness: a position of 1000 tokens entered at 10 has been re-priced at
\* 12 with an unrealized profit of 2000, next to a position that has not.
C27_Witness ==
  \E u \in DOMAIN stats :
    /\ Len(stats[u].activePositions) = 2
    /\ \E i, j \in 1..2 :
         /\ stats[u].activePositions[i].amount = 1000
         /\ stats[u].activePositions[i].entryPrice = 10
         /\ stats[u].activePositions[i].currentPrice = 12
         /\ stats[u].activePositions[i].unrealizedPnL = 2000
         /\ stats[u].activePositions[j].currentPrice =
              stats[u].activePositions[j].entryPrice
         /\ stats[u].activePositions[j].unrealizedPnL = 0

\* C28: an engaged user whose balance is below the minimum when an event is
\* delivered is disengaged by the end of the handling of that event, or a handler
\* of that user is still running that can disengage them.
C28_StarvedUserDisengaged ==
  [][ \A u \in DOMAIN listeners :
        (/\ nextTx' = nextTx + 1
         /\ u \in DOMAIN stats
         /\ stats[u].balance < MinBalance)
          => \/ u \notin DOMAIN listeners'
             \/ \E h \in handlers' : h.user = u ]_vars

\* The ledger user v reads is the same before and after the step.
LedgerKept(v) == v \in DOMAIN stats' /\ stats'[v] = getUserStats(stats, v)

\* C29: a step that changes one user's ledger leaves every other user's ledger
\* as it was, and the change is one trade applied to that ledger, its reset or a
\* price update of one of its positions; a step of a user's handler or a command
\* of a user leaves the ledgers of all other users as they were.
C29_LedgerIsolation ==
  [][ /\ \A u \in DOMAIN stats' :
           LET before == getUserStats(stats, u)
               after == stats'[u]
           IN after # before =>
                /\ \A v \in (DOMAIN stats' \cup DOMAIN stats) \ {u} : LedgerKept(v)
                /\ \/ /\ TradeAdded(before, after)
                      /\ after = ApplyTrade(before, after.tradeHistory[1])
                   \/ after = InitialLedger(u)
                   \/ \E a \in LedgerSellTokens, p \in TrackerPrices :
                        PriceUpdated(before, after, a, p)
      /\ \A h \in handlers \ handlers' :
           \A v \in (DOMAIN stats' \cup DOMAIN stats) \ {h.user} : LedgerKept(v)
      /\ reply' # reply =>
           \A v \in (DOMAIN stats' \cup DOMAIN stats) \ {reply'.user} : LedgerKept(v)
    ]_vars

\* C29 witness: two engaged users took the same event; one bought and sold, the
\* other's buy failed, and each ledger holds only its own trades.
C29_Witness ==
  \E u, v \in DOMAIN stats :
    /\ u # v
    /\ u \in DOMAIN listeners /\ v \in DOMAIN listeners
    /\ stats[u].totalTrades = 2
    /\ \E i \in 1..Len(stats[u].tradeHistory) : IsCompletedSell(stats[u].tradeHistory[i])
    /\ stats[v].totalTrades = 1
    /\ stats[v].failedTrades = 1


\* The window of 5 to 15 seconds, in ms.
InDelayWindow(d) == 5000 <= d /\ d <= 15000

\* C30: a subscription that finds the generator idle arms the only pending timer
\* at that moment with a delay in the window; the timer stays as armed while the
\* generator runs; each event is generated when the delay has passed since the
\* arming, so the first event comes within the window after the subscription
\* and every later one within the window after the event before it.
C30_DelayWindow ==
  /\ [](isMonitoring => /\ timers = {monitoringInterval}
                        /\ InDelayWindow(clock.delay)
                        /\ clock.armedAt = clock.now)
  /\ [][ /\ (~isMonitoring /\ isMonitoring') =>
              /\ clock'.now = clock.now
              /\ clock'.armedAt = clock.now
              /\ nextTx' = nextTx
         /\ (isMonitoring /\ isMonitoring' /\ nextTx' = nextTx) =>
              /\ clock' = clock
              /\ monitoringInterval' = monitoringInterval
         /\ nextTx' # nextTx =>
              /\ isMonitoring /\ isMonitoring'
              /\ nextTx' = nextTx + 1
              /\ InDelayWindow(clock'.now - clock.armedAt)
              /\ clock'.armedAt = clock'.now
       ]_vars

\* C30 witness: after an idle wait a subscription armed the timer; two events
\* followed, 5 s and then 14.99 s apart, and the generator is still running.
C30_Witness ==
  /\ isMonitoring
  /\ nextTx = 2
  /\ clock.now = 3000 + 5000 + 14990
  /\ clock.armedAt = clock.now


\* C31: while a subscriber stays registered the generator keeps emitting: a
\* timer is pending after every event, and from every state with a subscriber
\* and fewer than MaxTx events another event is emitted, unless the last
\* subscriber leaves first.
C31_GeneratorKeepsEmitting ==
  /\ [](DOMAIN listeners # {} => (isMonitoring /\ monitoringInterval \in timers))
  /\ \A n \in 0..(MaxTx - 1) :
       (nextTx = n /\ DOMAIN listeners # {}) ~> (nextTx > n \/ DOMAIN listeners = {})

\* C31 witness: MaxTx events were emitted to a subscriber and the timer armed by
\* the last of them is pending.
C31_Witness ==
  /\ nextTx = MaxTx
  /\ DOMAIN listeners # {}
  /\ timers = {monitoringInterval}
  /\ ~rearmed


\* C32: the trade recorded for an accepted opportunity is completed exactly when
\* the reason reported at its acceptance was the favourable one.
C32_StatusAgreesWithReason ==
  \A h \in handlers :
    h.pc = "result" =>
      (h.status = "completed" <=> h.reason = "Good opportunity detected")


\* C33: while a handler waits between the evaluation of its event and the
\* application of its trade, the ledger of its user does not change.
C33_NoMutationBeforeApplication ==
  [][ \A h \in handlers \cap handlers' :
        h.pc = "opportunity" =>
          (h.user \in DOMAIN stats' /\ stats'[h.user] = getUserStats(stats, h.user)) ]_vars


\* The handler h applies its trade in this step.
Executes(h) == h \in handlers /\ h.pc = "opportunity" /\ h \notin handlers'

FeeInEur(gasUsed, gasPrice) ==
  ((((gasUsed * gasPrice) \div 1000) * 2300) * 10) \div 11

\* C35: the fee of a handler's buy is gasUsed * (gas price of the event + 1)
\* converted to EUR, and it is the amount added to totalFees; a completed buy has
\* total cost = trade size and quantity = (trade size - fee) * (1 - slippage) /
\* price of the asset.
C35_BuyFeeAndQuantity ==
  [][ \A h \in handlers :
        Executes(h) =>
          LET before == getUserStats(stats, h.user)
              after == stats'[h.user]
              trade == after.tradeHistory[1]
              fee == FeeInEur(trade.gasUsed, h.tx.gasPrice + 1)
          IN /\ trade.gasUsed \in GasUsedChoices
             /\ trade.gasFee = fee
             /\ after.totalFees = before.totalFees + fee
             /\ trade.status = "completed" =>
                  \E p \in TradePercentages, slippage \in SlippagesPerMille :
                    LET fraction == (before.balance * p) \div 100
                        cap == before.balance - MinBalance
                        size == IF fraction <= cap THEN fraction ELSE cap
                        effective == size - fee
                    IN /\ trade.totalCost = size
                       /\ trade.amount =
                            (effective - ((effective * slippage) \div 1000)) \div trade.price
                       /\ trade.price = DEMO_TOKENS[trade.tokenAddress].price ]_vars

\* C35 witness: the newest trade is a completed buy of a positive quantity
\* whose fee is that of 150000 units at 10 + 1 gwei.
C35_Witness ==
  \E u \in DOMAIN stats :
    /\ stats[u].tradeHistory # << >>
    /\ IsCompletedBuy(stats[u].tradeHistory[1])
    /\ stats[u].tradeHistory[1].amount > 0
    /\ stats[u].tradeHistory[1].gasFee = FeeInEur(150000, 11)
    /\ stats[u].totalFees = FeeInEur(150000, 11)


\* C36: every open position's stored unrealized profit is (last-observed price
\* - entry price) * quantity for its current entry price and quantity.
C36_UnrealizedProfit ==
  \A u \in DOMAIN stats :
    \A i \in 1..Len(stats[u].activePositions) :
      LET position == stats[u].activePositions[i]
      IN position.unrealizedPnL =
           (position.currentPrice - position.entryPrice) * position.amount


\* A buy that is still pending, with a fee of 0.04 EUR.
PendingTrade ==
  [ type |-> "buy", tokenAddress |-> 1, tokenSymbol |-> "PEPE", amount |-> 1000,
    price |-> 10, gasUsed |-> 150000, gasFee |-> 40000, totalCost |-> 2050000,
    profit |-> 0, status |-> "pending" ]

\* C37: in every ledger the handlers and the sells produce, totalTrades =
\* successfulTrades + failedTrades; a pending trade applied to such a ledger
\* adds 1 to totalTrades and its fee to totalFees and changes neither of the
\* other two counters, nor the balance, the positions or the profit.
C37_CountersAddUp ==
  \A u \in DOMAIN stats :
    LET st == stats[u]
        after == addTrade(stats, u, PendingTrade)[u]
    IN /\ st.totalTrades = st.successfulTrades + st.failedTrades
       /\ after.totalTrades = st.totalTrades + 1
       /\ after.totalFees = st.totalFees + 40000
       /\ after.successfulTrades = st.successfulTrades
       /\ after.failedTrades = st.failedTrades
       /\ after.balance = st.balance
       /\ after.activePositions = st.activePositions
       /\ after.totalProfit = st.totalProfit
       /\ after.totalTrades = after.successfulTrades + after.failedTrades + 1

\* C37 witness: a ledger with two completed trades, one of them a sell, and a
\* failed one.
C37_Witness ==
  \E u \in DOMAIN stats :
    /\ stats[u].totalTrades = 3
    /\ stats[u].successfulTrades = 2
    /\ stats[u].failedTrades = 1
    /\ \E i \in 1..3 : IsCompletedSell(stats[u].tradeHistory[i])


\* C38: the history of every ledger holds min(totalTrades, 50) entries; a step
\* that changes a ledger's history or totalTrades either adds 1 to totalTrades
\* and puts an entry in front of the history, whether or not an old entry is
\* evicted, or is a reset that empties the history and zeroes the counter.
C38_HistoryLength ==
  /\ [] \A u \in DOMAIN stats :
          Len(stats[u].tradeHistory)
            = IF stats[u].totalTrades < HistoryCapacity
              THEN stats[u].totalTrades ELSE HistoryCapacity
  /\ [][ \A u \in DOMAIN stats' :
           LET before == getUserStats(stats, u)
               after == stats'[u]
           IN \/ /\ after.totalTrades = before.totalTrades
                 /\ after.tradeHistory = before.tradeHistory
              \/ /\ after.totalTrades = before.totalTrades + 1
                 /\ after.tradeHistory # << >>
                 /\ Tail(after.tradeHistory)
                      = SubSeq(before.tradeHistory, 1, Len(after.tradeHistory) - 1)
                 /\ Len(after.tradeHistory) >= Len(before.tradeHistory)
              \/ /\ after.totalTrades = 0
                 /\ after.tradeHistory = << >> ]_vars

\* C38 witness: a ledger that took 51 trades holds 50 of them, the oldest being
\* the second, next to a ledger that was reset.
C38_Witness ==
  \E u, v \in DOMAIN stats :
    /\ u # v
    /\ stats[u].totalTrades = 51
    /\ Len(stats[u].tradeHistory) = 50
    /\ stats[u].tradeHistory[50].timestamp = 2
    /\ stats[v].totalTrades = 0
    /\ stats[v].tradeHistory = << >>


\* C39: at most one generator timer is pending in every state; a subscription
\* made while the generator runs arms no timer and leaves the pending one and
\* its deadline alone; a subscription that ends an idle period leaves exactly
\* one timer pending, the one it armed.
C39_OneTimerPending ==
  /\ [](Cardinality(timers) <= 1)
  /\ [][ (isMonitoring /\ DOMAIN listeners' # DOMAIN listeners
            /\ DOMAIN listeners \subseteq DOMAIN listeners')
           => /\ timers' = timers
              /\ monitoringInterval' = monitoringInterval
              /\ clock' = clock ]_vars
  /\ [][ (DOMAIN listeners = {} /\ DOMAIN listeners' # {})
           => /\ timers' = {monitoringInterval'}
              /\ monitoringInterval' \notin timers ]_vars

\* C39 witness: after events and an idle period a user subscribed again and a
\* second user joined before the timer fired; one timer is pending.
C39_Witness ==
  /\ Cardinality(DOMAIN listeners) >= 2
  /\ rearmed
  /\ nextTx >= 1
  /\ Cardinality(timers) = 1


\* C40: once a reset was answered and until the user's next command is
\* answered, the user stays unsubscribed and the ledger stays the initial one:
\* no handler of an event delivered before the reset applies its trade.
C40_ResetHolds ==
  [][ \A u \in Users :
        (reply = Reply(u, "Statistics reset") /\ reply' = reply)
          => /\ u \notin DOMAIN listeners'
             /\ stats'[u] = InitialLedger(u) ]_vars

============================================================================
